---- MODULE Spec2Model ----
(***************************************************************************)
(* Billing ledger and inventory reconciliation of the BOSSINN dashboard.   *)
(*                                                                         *)
(* The document store (collections inventory, purchases, checkins and the  *)
(* payments sub-collection of every checkin) is the record db.  Shop       *)
(* sessions (Shop.tsx) load a snapshot of it, build a cart and call        *)
(* ShopPurchaseService.processPurchase, which queues a write batch and     *)
(* commits it.  The other screens (AddInventory, Inventory, CheckIn) write *)
(* to the same store in between.                                           *)
(*                                                                         *)
(* Currency amounts are integers (rupees); the floating point of the       *)
(* source is not modelled.                                                 *)
(***************************************************************************)
EXTENDS Integers, Sequences, FiniteSets, TLC

VARIABLES
    db,          \* the document store
    shop,        \* React state of every Shop session
    call,        \* the processPurchase call of every caller: its promise and batch
    timer,       \* the 2-second success timeout of every Shop session is armed
    fetching,    \* fetchInventoryAndRooms of every Shop session is in flight
    inventoryPage, \* React state of the Inventory page: its loaded item list
    checkinForm, \* CheckIn.handleSubmit between its two writes
    sold,        \* history: units decremented by committed purchase batches, per item
    clock,       \* the time Timestamp.now() returns
    bookedRooms, \* React state of the BookedRooms page (Room History)
    paymentsPage, \* React state of the PaymentsPage (Payment Logs)
    paymentList  \* React state of the PaymentList, and the view of the page

vars == <<db, shop, call, timer, fetching, inventoryPage, checkinForm, sold, clock,
          bookedRooms, paymentsPage, paymentList>>

-----------------------------------------------------------------------------
(* Bounds of the model *)

MaxStock == 2      \* largest quantity of an item the forms are given
MaxPrice == 2      \* largest unit price the forms are given
MaxPurchases == 2  \* purchase records after which no further direct call is made
MaxClock == 1      \* last value of the clock
MaxEntries == 3    \* ledger entries of a stay after which no payment, extension or fee is added
ListEntries == 11  \* ledger entries of the stay shown in the list view of the Payment Logs

Items == {"i1", "i2", "i3"}    \* document ids of the inventory collection
Stays == {"c1", "c2"}          \* document ids of the checkins collection
Sessions == {"s1", "s2"}       \* Shop pages open at the same time
ApiCaller == "api"             \* a caller of the exported service other than Shop
Callers == Sessions \cup {ApiCaller}

ItemOrder == <<"i1", "i2", "i3">>  \* the order in which item ids are handed out
StayOrder == <<"c1", "c2">>        \* the order in which checkin ids are handed out

Quantities == 0..MaxStock
Prices == 1..MaxPrice
Rents == {2}
InitialPayments == {1}
ChargeAmounts == {1}     \* amounts of extensions and extra fees
PaymentAmounts == {1, 2} \* amounts typed into the Add Payment form

NoRoom == ""

-----------------------------------------------------------------------------
(* Sequence helpers *)

RECURSIVE SumSeq(_)
SumSeq(s) == IF s = <<>> THEN 0 ELSE Head(s) + SumSeq(Tail(s))

RECURSIVE SelectIdx(_, _, _)
\* the index of the first element of seq at or after k whose inventoryId is id, 0 if none
SelectIdx(seq, id, k) ==
    IF k > Len(seq) THEN 0
    ELSE IF seq[k].inventoryId = id THEN k
    ELSE SelectIdx(seq, id, k + 1)

Abs(n) == IF n < 0 THEN -n ELSE n

-----------------------------------------------------------------------------
(* Documents *)

NoItem == [state |-> "unused", quantity |-> 0, unitPrice |-> 0]
DeletedItem == [state |-> "deleted", quantity |-> 0, unitPrice |-> 0]
NoCheckin == [exists |-> FALSE, isCheckedOut |-> FALSE, rent |-> 0, initialPayment |-> 0,
              checkedInAt |-> 0]

ItemLive(d, i) == i \in Items /\ d.inventory[i].state = "live"
CheckinExists(d, c) == c \in Stays /\ d.checkins[c].exists

NoSnapshot == [present |-> FALSE, quantity |-> 0, unitPrice |-> 0]

-----------------------------------------------------------------------------
(* ShopPurchaseService.processPurchase: the write batch *)

\* A queued write of a batch.  update writes need their document to exist;
\* set writes create a document under a fresh id.
NoPurchase == [checkinId |-> "", inventoryId |-> "", quantity |-> 0, amount |-> 0,
               paymentStatus |-> ""]
NoPayment == [amount |-> 0, mode |-> "", type |-> "", items |-> 0, timestamp |-> 0]

\* increment(-1) for every line, whatever its quantity
UpdateQuantityByOne(item) ==
    [op |-> "incQuantity", id |-> item.inventoryId, n |-> -1,
     purchase |-> NoPurchase, payment |-> NoPayment]

UpdateQuantity(item) ==
    [op |-> "incQuantity", id |-> item.inventoryId, n |-> -item.quantity,
     purchase |-> NoPurchase, payment |-> NoPayment]

\* a purchase record whose amount is the quantity, whatever the unit price
SetPurchaseQuantityOnly(checkinId, item) ==
    [op |-> "setPurchase", id |-> checkinId, n |-> 0,
     purchase |-> [checkinId |-> checkinId, inventoryId |-> item.inventoryId,
                   quantity |-> item.quantity,
                   amount |-> item.quantity,
                   paymentStatus |-> "pending"],
     payment |-> NoPayment]

SetPurchase(checkinId, item) ==
    [op |-> "setPurchase", id |-> checkinId, n |-> 0,
     purchase |-> [checkinId |-> checkinId, inventoryId |-> item.inventoryId,
                   quantity |-> item.quantity,
                   amount |-> item.quantity * item.unitPrice,
                   paymentStatus |-> "pending"],
     payment |-> NoPayment]

UpdateInitialPayment(checkinId, totalAmount) ==
    [op |-> "incInitialPayment", id |-> checkinId, n |-> -totalAmount,
     purchase |-> NoPurchase, payment |-> NoPayment]

\* a ledger entry of a purchase written with the mode of a cash payment
SetPaymentCash(checkinId, totalAmount, count) ==
    [op |-> "setPayment", id |-> checkinId, n |-> 0, purchase |-> NoPurchase,
     payment |-> [amount |-> -totalAmount, mode |-> "cash", type |-> "shop-purchase",
                  items |-> count, timestamp |-> clock]]

\* items stands for the description `Shop purchase (${cartItems.length} items)`;
\* timestamp is Timestamp.now() when the write is queued
SetPayment(checkinId, totalAmount, count) ==
    [op |-> "setPayment", id |-> checkinId, n |-> 0, purchase |-> NoPurchase,
     payment |-> [amount |-> -totalAmount, mode |-> "shop", type |-> "shop-purchase",
                  items |-> count, timestamp |-> clock]]

RECURSIVE TotalUnitPrices(_)
\* a total that adds the unit price of every line once, whatever its quantity
TotalUnitPrices(cartItems) ==
    IF cartItems = <<>> THEN 0
    ELSE TotalUnitPrices(SubSeq(cartItems, 1, Len(cartItems) - 1))
         + cartItems[Len(cartItems)].unitPrice

RECURSIVE TotalAmount(_)
TotalAmount(cartItems) ==
    IF cartItems = <<>> THEN 0
    ELSE TotalAmount(SubSeq(cartItems, 1, Len(cartItems) - 1))
         + cartItems[Len(cartItems)].quantity * cartItems[Len(cartItems)].unitPrice

\* a validation that looks at the stay identifier only
MissingCheckinId(checkinId, cartItems) == checkinId = ""

InvalidPurchaseData(checkinId, cartItems) == checkinId = "" \/ Len(cartItems) = 0

BuildBatch(checkinId, cartItems) ==
    [k \in 1..Len(cartItems) |-> UpdateQuantity(cartItems[k])]
    \o [k \in 1..Len(cartItems) |-> SetPurchase(checkinId, cartItems[k])]
    \o << UpdateInitialPayment(checkinId, TotalAmount(cartItems)),
          SetPayment(checkinId, TotalAmount(cartItems), Len(cartItems)) >>

\* A call of processPurchase: its arguments, the batch it queued, the state of
\* its promise and the error it threw
IdleCall == [status |-> "idle", checkinId |-> "", cartItems |-> <<>>, batch |-> <<>>,
             error |-> "none"]

\* processPurchase up to its await: the validation and the queued batch
ProcessPurchase(checkinId, cartItems) ==
    IF InvalidPurchaseData(checkinId, cartItems)
    THEN [status |-> "rejected", checkinId |-> checkinId, cartItems |-> cartItems,
          batch |-> <<>>, error |-> "invalid"]
    ELSE [status |-> "commit", checkinId |-> checkinId, cartItems |-> cartItems,
          batch |-> BuildBatch(checkinId, cartItems), error |-> "none"]

WriteOk(d, w) ==
    CASE w.op = "incQuantity" -> ItemLive(d, w.id)
      [] w.op = "incInitialPayment" -> CheckinExists(d, w.id)
      [] OTHER -> TRUE

\* writes whose increment of the checkin lands on rent
ApplyWriteToRent(d, w) ==
    CASE w.op = "incQuantity" ->
            [d EXCEPT !.inventory[w.id].quantity = @ + w.n]
      [] w.op = "setPurchase" ->
            [d EXCEPT !.purchases = Append(@, w.purchase)]
      [] w.op = "incInitialPayment" ->
            [d EXCEPT !.checkins[w.id].rent = @ + w.n]
      [] w.op = "setPayment" ->
            [d EXCEPT !.payments[w.id] = Append(@, w.payment)]

\* writes whose payment document takes the place of the stay's entries
ApplyWriteOverwriting(d, w) ==
    CASE w.op = "incQuantity" ->
            [d EXCEPT !.inventory[w.id].quantity = @ + w.n]
      [] w.op = "setPurchase" ->
            [d EXCEPT !.purchases = Append(@, w.purchase)]
      [] w.op = "incInitialPayment" ->
            [d EXCEPT !.checkins[w.id].initialPayment = @ + w.n]
      [] w.op = "setPayment" ->
            [d EXCEPT !.payments[w.id] = <<w.payment>>]

ApplyWrite(d, w) ==
    CASE w.op = "incQuantity" ->
            [d EXCEPT !.inventory[w.id].quantity = @ + w.n]
      [] w.op = "setPurchase" ->
            [d EXCEPT !.purchases = Append(@, w.purchase)]
      [] w.op = "incInitialPayment" ->
            [d EXCEPT !.checkins[w.id].initialPayment = @ + w.n]
      [] w.op = "setPayment" ->
            [d EXCEPT !.payments[w.id] = Append(@, w.payment)]

RECURSIVE ApplyAll(_, _)
ApplyAll(d, batch) ==
    IF batch = <<>> THEN d ELSE ApplyAll(ApplyWrite(d, Head(batch)), Tail(batch))

RECURSIVE OkPrefix(_, _)
\* the longest prefix of batch whose writes all find their document
OkPrefix(d, batch) ==
    IF batch = <<>> \/ ~WriteOk(d, Head(batch)) THEN <<>>
    ELSE <<Head(batch)>> \o OkPrefix(d, Tail(batch))

\* A commit that sends the writes one by one and stops at the first that fails
SequentialCommit(d, batch, available) ==
    LET done == IF available THEN OkPrefix(d, batch) ELSE SubSeq(batch, 1, 1)
        ok == available /\ Len(done) = Len(batch)
    IN [ok |-> ok, db |-> ApplyAll(d, done), applied |-> done,
        error |-> IF ok THEN "none" ELSE IF available THEN "not-found" ELSE "unavailable"]

\* batch.commit(): all writes are applied, or none is
BatchCommit(d, batch, available) ==
    IF available /\ \A k \in 1..Len(batch) : WriteOk(d, batch[k])
    THEN [ok |-> TRUE, db |-> ApplyAll(d, batch), applied |-> batch, error |-> "none"]
    ELSE [ok |-> FALSE, db |-> d, applied |-> <<>>,
          error |-> IF available THEN "not-found" ELSE "unavailable"]

\* units each item loses through the writes of a batch that were applied
Decremented(applied, i) ==
    SumSeq([k \in 1..Len(applied) |->
              IF applied[k].op = "incQuantity" /\ applied[k].id = i
              THEN -applied[k].n ELSE 0])

\* The store answers the commit of caller k
Commit(k) ==
    /\ call[k].status = "commit"
    /\ \E available \in BOOLEAN :
         LET out == BatchCommit(db, call[k].batch, available) IN
         /\ db' = out.db
         /\ sold' = [i \in Items |-> sold[i] + Decremented(out.applied, i)]
         /\ call' = [call EXCEPT ![k].status = IF out.ok THEN "resolved" ELSE "rejected",
                                 ![k].batch = <<>>,
                                 ![k].error = out.error]
    /\ UNCHANGED <<shop, timer, fetching, inventoryPage, checkinForm, clock,
                 bookedRooms, paymentsPage, paymentList>>

-----------------------------------------------------------------------------
(* Shop.tsx: one Shop page per session *)

NewShop == [inventoryItems |-> [i \in Items |-> NoSnapshot], bookedRooms |-> {},
            selectedRoom |-> NoRoom, cartItems |-> <<>>, checkoutModal |-> FALSE,
            processingCheckout |-> FALSE, purchaseSuccess |-> FALSE]

\* the items with quantity > 0 and the checkins that are not checked out
InventoryList(d) ==
    [i \in Items |->
        IF ItemLive(d, i) /\ d.inventory[i].quantity > 0
        THEN [present |-> TRUE, quantity |-> d.inventory[i].quantity,
              unitPrice |-> d.inventory[i].unitPrice]
        ELSE NoSnapshot]

BookingsList(d) == {c \in Stays : d.checkins[c].exists /\ ~d.checkins[c].isCheckedOut}

FetchInventoryAndRooms(s) ==
    /\ fetching[s]
    /\ shop' = [shop EXCEPT ![s].inventoryItems = InventoryList(db),
                            ![s].bookedRooms = BookingsList(db)]
    /\ fetching' = [fetching EXCEPT ![s] = FALSE]
    /\ UNCHANGED <<db, call, timer, inventoryPage, checkinForm, sold, clock,
                 bookedRooms, paymentsPage, paymentList>>

\* the page below the checkout modal takes no clicks while the modal is shown
SetSelectedRoom(s, r) ==
    /\ ~shop[s].checkoutModal
    /\ r \in shop[s].bookedRooms \cup {NoRoom}
    /\ r # shop[s].selectedRoom
    /\ shop' = [shop EXCEPT ![s].selectedRoom = r]
    /\ UNCHANGED <<db, call, timer, fetching, inventoryPage, checkinForm, sold, clock,
                 bookedRooms, paymentsPage, paymentList>>

CartIndex(cartItems, i) == SelectIdx(cartItems, i, 1)

RemoveLine(cartItems, i) == SelectSeq(cartItems, LAMBDA line : line.inventoryId # i)

AddToCart(s, i) ==
    LET item == shop[s].inventoryItems[i]
        k == CartIndex(shop[s].cartItems, i)
    IN
    /\ ~shop[s].checkoutModal
    /\ item.present
    /\ shop[s].selectedRoom # NoRoom
    /\ IF k # 0
       THEN /\ shop[s].cartItems[k].quantity < item.quantity
            /\ shop' = [shop EXCEPT ![s].cartItems[k].quantity = @ + 1]
       ELSE shop' = [shop EXCEPT ![s].cartItems =
                        Append(@, [inventoryId |-> i, quantity |-> 1,
                                   unitPrice |-> item.unitPrice])]
    /\ UNCHANGED <<db, call, timer, fetching, inventoryPage, checkinForm, sold, clock,
                 bookedRooms, paymentsPage, paymentList>>

RemoveFromCart(s, i) ==
    LET k == CartIndex(shop[s].cartItems, i) IN
    /\ ~shop[s].checkoutModal
    /\ k # 0
    /\ IF shop[s].cartItems[k].quantity = 1
       THEN shop' = [shop EXCEPT ![s].cartItems = RemoveLine(@, i)]
       ELSE shop' = [shop EXCEPT ![s].cartItems[k].quantity = @ - 1]
    /\ UNCHANGED <<db, call, timer, fetching, inventoryPage, checkinForm, sold, clock,
                 bookedRooms, paymentsPage, paymentList>>

RemoveItemCompletely(s, i) ==
    /\ ~shop[s].checkoutModal
    /\ CartIndex(shop[s].cartItems, i) # 0
    /\ shop' = [shop EXCEPT ![s].cartItems = RemoveLine(@, i)]
    /\ UNCHANGED <<db, call, timer, fetching, inventoryPage, checkinForm, sold, clock,
                 bookedRooms, paymentsPage, paymentList>>

OpenCheckoutModal(s) ==
    /\ ~shop[s].checkoutModal
    /\ shop[s].selectedRoom # NoRoom
    /\ shop[s].cartItems # <<>>
    /\ shop' = [shop EXCEPT ![s].checkoutModal = TRUE]
    /\ UNCHANGED <<db, call, timer, fetching, inventoryPage, checkinForm, sold, clock,
                 bookedRooms, paymentsPage, paymentList>>

CloseCheckoutModal(s) ==
    /\ shop[s].checkoutModal
    /\ ~shop[s].purchaseSuccess
    /\ ~shop[s].processingCheckout
    /\ shop' = [shop EXCEPT ![s].checkoutModal = FALSE]
    /\ UNCHANGED <<db, call, timer, fetching, inventoryPage, checkinForm, sold, clock,
                 bookedRooms, paymentsPage, paymentList>>

\* the guard of handleCheckout
CheckoutAllowed(selectedRoom, cartItems) == selectedRoom # NoRoom /\ Len(cartItems) # 0

HandleCheckoutUnguarded(s) ==
    /\ shop[s].checkoutModal
    /\ CheckoutAllowed(shop[s].selectedRoom, shop[s].cartItems)
    /\ shop' = [shop EXCEPT ![s].processingCheckout = TRUE]
    /\ call' = [call EXCEPT ![s] = ProcessPurchase(shop[s].selectedRoom, shop[s].cartItems)]
    /\ UNCHANGED <<db, timer, fetching, inventoryPage, checkinForm, sold, clock,
                 bookedRooms, paymentsPage, paymentList>>

\* Confirm Purchase: handleCheckout up to the await of processPurchase
HandleCheckout(s) ==
    /\ shop[s].checkoutModal
    /\ ~shop[s].purchaseSuccess
    /\ ~shop[s].processingCheckout
    /\ CheckoutAllowed(shop[s].selectedRoom, shop[s].cartItems)
    /\ shop' = [shop EXCEPT ![s].processingCheckout = TRUE]
    /\ call' = [call EXCEPT ![s] = ProcessPurchase(shop[s].selectedRoom, shop[s].cartItems)]
    /\ UNCHANGED <<db, timer, fetching, inventoryPage, checkinForm, sold, clock,
                 bookedRooms, paymentsPage, paymentList>>

\* handleCheckout after processPurchase resolved
CheckoutResolved(s) ==
    /\ call[s].status = "resolved"
    /\ shop' = [shop EXCEPT ![s].purchaseSuccess = TRUE]
    /\ timer' = [timer EXCEPT ![s] = TRUE]
    /\ call' = [call EXCEPT ![s] = IdleCall]
    /\ UNCHANGED <<db, fetching, inventoryPage, checkinForm, sold, clock,
                 bookedRooms, paymentsPage, paymentList>>

CheckoutRejectedAsSuccess(s) ==
    /\ call[s].status = "rejected"
    /\ shop' = [shop EXCEPT ![s].purchaseSuccess = TRUE]
    /\ timer' = [timer EXCEPT ![s] = TRUE]
    /\ call' = [call EXCEPT ![s] = IdleCall]
    /\ UNCHANGED <<db, fetching, inventoryPage, checkinForm, sold, clock,
                 bookedRooms, paymentsPage, paymentList>>

\* handleCheckout's catch
CheckoutRejected(s) ==
    /\ call[s].status = "rejected"
    /\ shop' = [shop EXCEPT ![s].purchaseSuccess = FALSE,
                            ![s].processingCheckout = FALSE]
    /\ call' = [call EXCEPT ![s] = IdleCall]
    /\ UNCHANGED <<db, timer, fetching, inventoryPage, checkinForm, sold, clock,
                 bookedRooms, paymentsPage, paymentList>>

\* the setTimeout callback of handleCheckout
SuccessTimeout(s) ==
    /\ timer[s]
    /\ shop' = [shop EXCEPT ![s].purchaseSuccess = FALSE,
                            ![s].cartItems = <<>>,
                            ![s].checkoutModal = FALSE]
    /\ timer' = [timer EXCEPT ![s] = FALSE]
    /\ fetching' = [fetching EXCEPT ![s] = TRUE]
    /\ UNCHANGED <<db, call, inventoryPage, checkinForm, sold, clock,
                 bookedRooms, paymentsPage, paymentList>>

-----------------------------------------------------------------------------
(* AddInventory.tsx, Inventory.tsx and the item edit page *)

\* addDoc gives every new document a fresh id: ids are handed out in order
FreshItem(d, i) ==
    \E k \in 1..Len(ItemOrder) :
        /\ ItemOrder[k] = i
        /\ d.inventory[i].state = "unused"
        /\ \A j \in 1..(k - 1) : d.inventory[ItemOrder[j]].state # "unused"

\* AddInventory.onSubmit; the form accepts quantity >= 0 and unitPrice >= 0
AddInventoryOnSubmit(i, q, p) ==
    /\ FreshItem(db, i)
    /\ db' = [db EXCEPT !.inventory[i] =
                 [state |-> "live", quantity |-> q, unitPrice |-> p]]
    /\ UNCHANGED <<shop, call, timer, fetching, inventoryPage, checkinForm, sold, clock,
                 bookedRooms, paymentsPage, paymentList>>

\* the edit page of an item (route /inventory/edit/:id) saves a new unit price
EditItemPrice(i, p) ==
    /\ ItemLive(db, i)
    /\ p # db.inventory[i].unitPrice
    /\ db' = [db EXCEPT !.inventory[i].unitPrice = p]
    /\ UNCHANGED <<shop, call, timer, fetching, inventoryPage, checkinForm, sold, clock,
                 bookedRooms, paymentsPage, paymentList>>

NoRow == [present |-> FALSE, quantity |-> 0]

\* Inventory.fetchInventory: every item, also those out of stock
FetchInventory ==
    /\ inventoryPage' = [i \in Items |->
                           IF ItemLive(db, i)
                           THEN [present |-> TRUE, quantity |-> db.inventory[i].quantity]
                           ELSE NoRow]
    /\ inventoryPage' # inventoryPage
    /\ UNCHANGED <<db, shop, call, timer, fetching, checkinForm, sold, clock,
                 bookedRooms, paymentsPage, paymentList>>

NewQuantity(quantity, operation, n) ==
    IF operation = "add" THEN quantity + n
    ELSE IF quantity - n > 0 THEN quantity - n ELSE 0

\* Inventory.handleUpdateQuantity: the new quantity is computed from the row the
\* page loaded and written with updateDoc, which fails when the item is gone
HandleUpdateQuantity(i, operation, n) ==
    LET item == inventoryPage[i]
        newQuantity == NewQuantity(item.quantity, operation, n)
    IN
    /\ item.present
    /\ newQuantity <= MaxStock
    /\ IF ItemLive(db, i)
       THEN /\ db' = [db EXCEPT !.inventory[i].quantity = newQuantity]
            /\ inventoryPage' = [inventoryPage EXCEPT ![i].quantity = newQuantity]
       ELSE UNCHANGED <<db, inventoryPage>>
    /\ UNCHANGED <<shop, call, timer, fetching, checkinForm, sold, clock,
                 bookedRooms, paymentsPage, paymentList>>

\* Inventory.handleDeleteItem
HandleDeleteItem(i) ==
    /\ inventoryPage[i].present
    /\ db' = [db EXCEPT !.inventory[i] = DeletedItem]
    /\ inventoryPage' = [inventoryPage EXCEPT ![i] = NoRow]
    /\ UNCHANGED <<shop, call, timer, fetching, checkinForm, sold, clock,
                 bookedRooms, paymentsPage, paymentList>>

-----------------------------------------------------------------------------
(* CheckIn.tsx and check-out *)

NoForm == [stage |-> "idle", id |-> "", amount |-> 0, mode |-> ""]

FreshStay(d, c) ==
    \E k \in 1..Len(StayOrder) :
        /\ StayOrder[k] = c
        /\ ~d.checkins[c].exists
        /\ \A j \in 1..(k - 1) : d.checkins[StayOrder[j]].exists

\* CheckIn.handleSubmit up to its second await: the checkin document is added
CheckInAddCheckin(c, rent, initialPayment, paymentMode) ==
    /\ checkinForm.stage = "idle"
    /\ FreshStay(db, c)
    /\ db' = [db EXCEPT !.checkins[c] =
                 [exists |-> TRUE, isCheckedOut |-> FALSE, rent |-> rent,
                  initialPayment |-> initialPayment, checkedInAt |-> clock]]
    /\ checkinForm' = [stage |-> "payment", id |-> c, amount |-> initialPayment,
                       mode |-> paymentMode]
    /\ UNCHANGED <<shop, call, timer, fetching, inventoryPage, sold, clock,
                 bookedRooms, paymentsPage, paymentList>>

\* CheckIn.handleSubmit: the initial payment entry is added, or the write fails
CheckInAddPayment(ok) ==
    /\ checkinForm.stage = "payment"
    /\ db' = IF ok
             THEN [db EXCEPT !.payments[checkinForm.id] =
                      Append(@, [amount |-> checkinForm.amount, mode |-> checkinForm.mode,
                                 type |-> "initial", items |-> 0, timestamp |-> clock])]
             ELSE db
    /\ checkinForm' = NoForm
    /\ UNCHANGED <<shop, call, timer, fetching, inventoryPage, sold, clock,
                 bookedRooms, paymentsPage, paymentList>>

\* check-out of a stay closes it
CheckOut(c) ==
    /\ db.checkins[c].exists
    /\ ~db.checkins[c].isCheckedOut
    /\ db' = [db EXCEPT !.checkins[c].isCheckedOut = TRUE]
    /\ UNCHANGED <<shop, call, timer, fetching, inventoryPage, checkinForm, sold, clock,
                 bookedRooms, paymentsPage, paymentList>>

-----------------------------------------------------------------------------
(* Time, and the operations that extend a stay *)

\* time passes: Timestamp.now() returns a later value
Tick ==
    /\ clock < MaxClock
    /\ clock' = clock + 1
    /\ UNCHANGED <<db, shop, call, timer, fetching, inventoryPage, checkinForm, sold,
                   bookedRooms, paymentsPage, paymentList>>

\* a charge added to the running rent of a stay, with its ledger entry
RentCharge(kind, amount) ==
    [amount |-> amount, mode |-> "n/a", type |-> kind, items |-> 0, timestamp |-> clock]

\* extension of a stay: the amount is added to the stay's rent and an entry of
\* kind extension is appended, together
RecordExtension(c, amount) ==
    /\ db.checkins[c].exists
    /\ ~db.checkins[c].isCheckedOut
    /\ Len(db.payments[c]) < MaxEntries
    /\ db' = [db EXCEPT !.checkins[c].rent = @ + amount,
                        !.payments[c] = Append(@, RentCharge("extension", amount))]
    /\ UNCHANGED <<shop, call, timer, fetching, inventoryPage, checkinForm, sold, clock,
                   bookedRooms, paymentsPage, paymentList>>

\* extra fee of a stay: as an extension, with kind extra-fee
RecordFee(c, amount) ==
    /\ db.checkins[c].exists
    /\ ~db.checkins[c].isCheckedOut
    /\ Len(db.payments[c]) < MaxEntries
    /\ db' = [db EXCEPT !.checkins[c].rent = @ + amount,
                        !.payments[c] = Append(@, RentCharge("extra-fee", amount))]
    /\ UNCHANGED <<shop, call, timer, fetching, inventoryPage, checkinForm, sold, clock,
                   bookedRooms, paymentsPage, paymentList>>

-----------------------------------------------------------------------------
(* BookedRooms.tsx: the Room History page *)

NoCustomer == [present |-> FALSE, rent |-> 0, checkedInAt |-> 0]
NoSelectedCustomer == [id |-> "", rent |-> 0, checkedInAt |-> 0]

NewBookedRooms == [customers |-> [c \in Stays |-> NoCustomer],
                   selectedCustomer |-> NoSelectedCustomer,
                   paymentHistory |-> <<>>, shopPurchases |-> <<>>]

\* seq with e put at position p
InsertAt(seq, e, p) ==
    SubSeq(seq, 1, p - 1) \o <<e>> \o SubSeq(seq, p, Len(seq))

RECURSIVE OrderByTimestamp(_)
\* orderBy('timestamp', 'asc'): entries of equal timestamp come in any order
OrderByTimestamp(entries) ==
    IF entries = <<>> THEN {<<>>}
    ELSE LET e == Head(entries)
             Fits(h, p) == /\ \A j \in 1..(p - 1) : h[j].timestamp <= e.timestamp
                           /\ \A j \in p..Len(h) : h[j].timestamp >= e.timestamp
         IN UNION {{InsertAt(h, e, p) : p \in {q \in 1..(Len(h) + 1) : Fits(h, q)}} :
                      h \in OrderByTimestamp(Tail(entries))}

\* an entry as the page holds it: the document with its id
HistoryEntry(e, id) ==
    [id |-> id, amount |-> e.amount, mode |-> e.mode, type |-> e.type,
     timestamp |-> e.timestamp]

\* fetchCustomers: the checked-out stays (of the selected room)
CustomersList(d) ==
    [c \in Stays |->
        IF d.checkins[c].exists /\ d.checkins[c].isCheckedOut
        THEN [present |-> TRUE, rent |-> d.checkins[c].rent,
              checkedInAt |-> d.checkins[c].checkedInAt]
        ELSE NoCustomer]

\* a room is clicked: the customer selection is dropped and fetchCustomers runs
FetchCustomers ==
    /\ bookedRooms' = [bookedRooms EXCEPT !.customers = CustomersList(db),
                                          !.selectedCustomer = NoSelectedCustomer]
    /\ bookedRooms' # bookedRooms
    /\ UNCHANGED <<db, shop, call, timer, fetching, inventoryPage, checkinForm, sold, clock,
                   paymentsPage, paymentList>>

RentEntry(customer) ==
    [id |-> "rent-entry", amount |-> customer.rent, mode |-> "n/a",
     type |-> "Rent (Check-in)", timestamp |-> customer.checkedInAt]

RECURSIVE FindInitial(_, _)
\* history.find(p => p.type === 'initial'): the index of the first, 0 if none
FindInitial(history, k) ==
    IF k > Len(history) THEN 0
    ELSE IF history[k].type = "initial" THEN k
    ELSE FindInitial(history, k + 1)

\* the initial payment shown when the ledger holds none
SynthesizedInitial(customer) ==
    [id |-> "advance-entry", amount |-> customer.rent, mode |-> "cash",
     type |-> "initial", timestamp |-> customer.checkedInAt]

\* a history that shows no initial payment when the ledger holds none
FullHistoryNoFallback(customer, history) ==
    <<RentEntry(customer)>>
    \o (IF FindInitial(history, 1) # 0 THEN <<history[FindInitial(history, 1)]>> ELSE <<>>)
    \o SelectSeq(history, LAMBDA p : p.type # "initial")

\* fullHistory of fetchPaymentHistory
FullHistory(customer, history) ==
    LET k == FindInitial(history, 1)
        advanceEntry == IF k # 0 THEN history[k] ELSE SynthesizedInitial(customer)
    IN <<RentEntry(customer), advanceEntry>>
       \o SelectSeq(history, LAMBDA p : p.type # "initial")

\* fetchPaymentHistory of a customer of the list
FetchPaymentHistory(c) ==
    LET customer == bookedRooms.customers[c] IN
    /\ customer.present
    /\ \E entries \in OrderByTimestamp(db.payments[c]) :
         LET history == [k \in 1..Len(entries) |-> HistoryEntry(entries[k], "doc")] IN
         bookedRooms' = [bookedRooms EXCEPT
                            !.selectedCustomer = [id |-> c, rent |-> customer.rent,
                                                  checkedInAt |-> customer.checkedInAt],
                            !.paymentHistory = FullHistory(customer, history),
                            !.shopPurchases = SelectSeq(db.purchases,
                                                        LAMBDA p : p.checkinId = c)]
    /\ UNCHANGED <<db, shop, call, timer, fetching, inventoryPage, checkinForm, sold, clock,
                   paymentsPage, paymentList>>

\* a payment entry written with the kind of the check-in payment
AddPaymentEntryAsInitial(amount) ==
    [amount |-> amount, mode |-> "cash", type |-> "initial", items |-> 0,
     timestamp |-> clock]

\* the document handleAddPayment adds
AddPaymentEntry(amount) ==
    [amount |-> amount, mode |-> "cash", type |-> "advance", items |-> 0,
     timestamp |-> clock]

\* handleAddPayment: the payment is added to the selected customer's ledger and
\* the history is fetched again; a write the store refuses changes nothing
HandleAddPayment(amount) ==
    LET c == bookedRooms.selectedCustomer.id
        customer == bookedRooms.selectedCustomer
    IN
    /\ c # ""
    /\ amount > 0
    /\ Len(db.payments[c]) < MaxEntries
    /\ db' = [db EXCEPT !.payments[c] = Append(@, AddPaymentEntry(amount))]
    /\ \E entries \in OrderByTimestamp(db'.payments[c]) :
         LET history == [k \in 1..Len(entries) |-> HistoryEntry(entries[k], "doc")] IN
         bookedRooms' = [bookedRooms EXCEPT
                            !.paymentHistory = FullHistory(customer, history),
                            !.shopPurchases = SelectSeq(db'.purchases,
                                                        LAMBDA p : p.checkinId = c)]
    /\ UNCHANGED <<shop, call, timer, fetching, inventoryPage, checkinForm, sold, clock,
                   paymentsPage, paymentList>>

\* the columns of the payment table
RentColumn(entry) ==
    IF entry.type \in {"Rent (Check-in)", "extension"} THEN entry.amount ELSE 0
CashColumn(entry) ==
    IF entry.type \in {"initial", "advance"} /\ entry.mode = "cash" THEN entry.amount ELSE 0
GpayColumn(entry) ==
    IF entry.type \in {"initial", "advance"} /\ entry.mode = "gpay" THEN entry.amount ELSE 0

GetTotalShopPurchases(shopPurchases) ==
    SumSeq([k \in 1..Len(shopPurchases) |-> shopPurchases[k].amount])

-----------------------------------------------------------------------------
(* The pending amount calculator *)

Max0(n) == IF n > 0 THEN n ELSE 0

\* the sum of the amounts of the entries of the given kinds and modes
SumOf(entries, kinds, modes) ==
    SumSeq([k \in 1..Len(entries) |->
              IF entries[k].type \in kinds /\ entries[k].mode \in modes
              THEN entries[k].amount ELSE 0])

AllModes == {"cash", "gpay", "shop", "n/a"}

\* the entries the calculator reads: the ledger, with an initial payment equal to
\* the rent when the ledger holds none
CalculatorEntries(rent, checkedInAt, entries) ==
    IF \E k \in 1..Len(entries) : entries[k].type = "initial" THEN entries
    ELSE <<[amount |-> rent, mode |-> "cash", type |-> "initial", items |-> 0,
            timestamp |-> checkedInAt]>> \o entries

\* a calculator that does not clamp
ComputePendingUnclamped(rent, entries, purchases) ==
    LET extensionsTotal == SumOf(entries, {"extension"}, AllModes)
        feesTotal == SumOf(entries, {"extra-fee"}, AllModes)
        baseRent == rent - extensionsTotal - feesTotal
        totalRentSoFar == baseRent + extensionsTotal + feesTotal
        totalPaid == SumOf(entries, {"initial", "advance"}, {"cash", "gpay"})
        shopPurchasesTotal == SumSeq([k \in 1..Len(purchases) |-> purchases[k].amount])
    IN [baseRent |-> baseRent, extensionsTotal |-> extensionsTotal,
        feesTotal |-> feesTotal, totalRentSoFar |-> totalRentSoFar,
        totalPaid |-> totalPaid, shopPurchasesTotal |-> shopPurchasesTotal,
        pendingAmount |-> totalRentSoFar + shopPurchasesTotal - totalPaid]

ComputePending(rent, entries, purchases) ==
    LET extensionsTotal == SumOf(entries, {"extension"}, AllModes)
        feesTotal == SumOf(entries, {"extra-fee"}, AllModes)
        baseRent == rent - extensionsTotal - feesTotal
        totalRentSoFar == baseRent + extensionsTotal + feesTotal
        totalPaid == SumOf(entries, {"initial", "advance"}, {"cash", "gpay"})
        shopPurchasesTotal == SumSeq([k \in 1..Len(purchases) |-> purchases[k].amount])
    IN [baseRent |-> baseRent, extensionsTotal |-> extensionsTotal,
        feesTotal |-> feesTotal, totalRentSoFar |-> totalRentSoFar,
        totalPaid |-> totalPaid, shopPurchasesTotal |-> shopPurchasesTotal,
        pendingAmount |-> Max0(totalRentSoFar + shopPurchasesTotal - totalPaid)]

\* the figures of a stay of the store
PendingOf(d, c) ==
    ComputePending(d.checkins[c].rent,
                   CalculatorEntries(d.checkins[c].rent, d.checkins[c].checkedInAt,
                                     d.payments[c]),
                   SelectSeq(d.purchases, LAMBDA p : p.checkinId = c))

-----------------------------------------------------------------------------
(* The house bookings page, as HOUSE_PENDING_AMOUNT_FIX.md describes it *)

\* fetchPaymentHistory of the booking modal: a rent line holding the base rent,
\* followed by the ledger
ModalHistory(rent, entries) ==
    LET extensionTotal == SumOf(entries, {"extension"}, AllModes)
        extraFeesTotal == SumOf(entries, {"extra-fee"}, AllModes)
        baseRent == rent - extensionTotal - extraFeesTotal
    IN <<[amount |-> baseRent, mode |-> "n/a", type |-> "rent", items |-> 0,
          timestamp |-> 0]>> \o entries

GetTotalRentSoFar(history) == SumOf(history, {"rent", "extension", "extra-fee"}, AllModes)

AllKinds == {"rent", "initial", "advance", "extension", "extra-fee", "shop-purchase"}

GetTotalPaidSoFar(history) ==
    SumOf(history, AllKinds, {"cash"}) + SumOf(history, AllKinds, {"gpay"})

\* the pending figure of the modal
ModalPending(rent, entries) ==
    GetTotalRentSoFar(ModalHistory(rent, entries))
      - GetTotalPaidSoFar(ModalHistory(rent, entries))

\* the pending figure of a house card
CalculatePendingAmount(rent, entries) ==
    LET totalRent == rent
        totalPaid == SumOf(entries, AllKinds, {"cash", "gpay"})
    IN Max0(totalRent - totalPaid)

-----------------------------------------------------------------------------
(* PaymentsPage.tsx: the Payment Logs page *)

NewPaymentsPage == [payments |-> <<>>, filteredPayments |-> <<>>, selectedDate |-> 0,
                    filterType |-> "all"]

\* a payment record of the page, made of a ledger entry
PaymentRecord(e) ==
    [amount |-> e.amount, timestamp |-> e.timestamp,
     type |-> IF e.type = "" THEN "additional" ELSE e.type,
     paymentMode |-> e.mode, mode |-> e.mode]

RECURSIVE AllPaymentRecords(_, _)
\* the payment records of the checkins from the k-th on
AllPaymentRecords(d, k) ==
    IF k > Len(StayOrder) THEN <<>>
    ELSE (IF d.checkins[StayOrder[k]].exists
          THEN [j \in 1..Len(d.payments[StayOrder[k]]) |->
                   PaymentRecord(d.payments[StayOrder[k]][j])]
          ELSE <<>>)
         \o AllPaymentRecords(d, k + 1)

RECURSIVE InsertNewestFirst(_, _)
\* record put behind the records of sorted that are not older than it
InsertNewestFirst(sorted, record) ==
    IF sorted = <<>> THEN <<record>>
    ELSE IF Head(sorted).timestamp >= record.timestamp
         THEN <<Head(sorted)>> \o InsertNewestFirst(Tail(sorted), record)
         ELSE <<record>> \o sorted

RECURSIVE SortNewestFirst(_)
\* paymentRecords.sort((a, b) => b.timestamp - a.timestamp)
SortNewestFirst(records) ==
    IF records = <<>> THEN <<>>
    ELSE InsertNewestFirst(SortNewestFirst(SubSeq(records, 1, Len(records) - 1)),
                           records[Len(records)])

\* filterPaymentsByDate: the payments of the selected day, of the selected type;
\* the day of a timestamp is the timestamp, the search box is empty
FilterPaymentsByDate(payments, date, filterType) ==
    SelectSeq(payments,
              LAMBDA payment : /\ payment.timestamp = date
                               /\ (filterType # "all" => payment.type = filterType))

FetchAllPayments ==
    /\ LET records == SortNewestFirst(AllPaymentRecords(db, 1)) IN
       paymentsPage' = [paymentsPage EXCEPT
                           !.payments = records,
                           !.filteredPayments =
                               FilterPaymentsByDate(records, paymentsPage.selectedDate,
                                                    paymentsPage.filterType)]
    /\ paymentsPage' # paymentsPage
    /\ UNCHANGED <<db, shop, call, timer, fetching, inventoryPage, checkinForm, sold, clock,
                   bookedRooms, paymentList>>

\* a day is picked in the calendar
SetSelectedDate(date) ==
    /\ date # paymentsPage.selectedDate
    /\ paymentsPage' = [paymentsPage EXCEPT
                           !.selectedDate = date,
                           !.filteredPayments =
                               FilterPaymentsByDate(paymentsPage.payments, date,
                                                    paymentsPage.filterType)]
    /\ UNCHANGED <<db, shop, call, timer, fetching, inventoryPage, checkinForm, sold, clock,
                   bookedRooms, paymentList>>

\* a type is picked in the filter
SetFilterType(filterType) ==
    /\ filterType # paymentsPage.filterType
    /\ paymentsPage' = [paymentsPage EXCEPT
                           !.filterType = filterType,
                           !.filteredPayments =
                               FilterPaymentsByDate(paymentsPage.payments,
                                                    paymentsPage.selectedDate, filterType)]
    /\ UNCHANGED <<db, shop, call, timer, fetching, inventoryPage, checkinForm, sold, clock,
                   bookedRooms, paymentList>>

IsMode(payment, modes) == payment.mode \in modes \/ payment.paymentMode \in modes

GetTotalAmount(filteredPayments) ==
    SumSeq([k \in 1..Len(filteredPayments) |->
              IF IsMode(filteredPayments[k], {"cash", "gpay"})
              THEN filteredPayments[k].amount ELSE 0])

GetCashTotal(filteredPayments) ==
    SumSeq([k \in 1..Len(filteredPayments) |->
              IF IsMode(filteredPayments[k], {"cash"})
              THEN filteredPayments[k].amount ELSE 0])

GetGpayTotal(filteredPayments) ==
    SumSeq([k \in 1..Len(filteredPayments) |->
              IF IsMode(filteredPayments[k], {"gpay"})
              THEN filteredPayments[k].amount ELSE 0])

-----------------------------------------------------------------------------
(* PaymentList.tsx: the list view of the Payment Logs page *)

\* the page shows the calendar first; the list is mounted by the List View
\* button, on its first page and sorted by timestamp, newest first
NewPaymentList == [view |-> "calendar", currentPage |-> 1, sortBy |-> "timestamp",
                   sortDirection |-> "desc"]

\* the payments the page hands to the list: those paid in cash or by gpay
ListPayments(filteredPayments) ==
    SelectSeq(filteredPayments, LAMBDA payment : IsMode(payment, {"cash", "gpay"}))

\* the value a payment is sorted by; types are compared as strings
TypeRank(type) ==
    CASE type = "additional" -> 1
      [] type = "advance" -> 2
      [] type = "extension" -> 3
      [] type = "extra-fee" -> 4
      [] type = "initial" -> 5
      [] OTHER -> 6

\* the payments of the list are those of one customer in one room
SortValue(payment, sortBy) ==
    CASE sortBy = "timestamp" -> payment.timestamp
      [] sortBy = "amount" -> payment.amount
      [] sortBy = "type" -> TypeRank(payment.type)
      [] OTHER -> 0

\* the comparator of sortedPayments: a positive result puts a behind b
PutBehind(a, b, sortBy, sortDirection) ==
    IF sortDirection = "asc"
    THEN SortValue(a, sortBy) > SortValue(b, sortBy)
    ELSE SortValue(a, sortBy) < SortValue(b, sortBy)

RECURSIVE InsertSorted(_, _, _, _)
InsertSorted(sorted, payment, sortBy, sortDirection) ==
    IF sorted = <<>> THEN <<payment>>
    ELSE IF PutBehind(payment, Head(sorted), sortBy, sortDirection)
         THEN <<Head(sorted)>> \o InsertSorted(Tail(sorted), payment, sortBy, sortDirection)
         ELSE <<payment>> \o sorted

RECURSIVE SortedPayments(_, _, _)
SortedPayments(payments, sortBy, sortDirection) ==
    IF payments = <<>> THEN <<>>
    ELSE InsertSorted(SortedPayments(Tail(payments), sortBy, sortDirection),
                      Head(payments), sortBy, sortDirection)

pageSize == 10

\* Math.ceil(sortedPayments.length / pageSize)
TotalPages(payments) == (Len(payments) + pageSize - 1) \div pageSize

\* sortedPayments.slice(startIndex, startIndex + pageSize)
CurrentPagePayments(payments, list) ==
    LET sorted == SortedPayments(payments, list.sortBy, list.sortDirection)
        startIndex == (list.currentPage - 1) * pageSize
        endIndex == IF startIndex + pageSize < Len(sorted) THEN startIndex + pageSize
                    ELSE Len(sorted)
    IN SubSeq(sorted, startIndex + 1, endIndex)

\* the Calendar View and List View buttons: the list is mounted anew
SetView(view) ==
    /\ view # paymentList.view
    /\ paymentList' = [NewPaymentList EXCEPT !.view = view]
    /\ UNCHANGED <<db, shop, call, timer, fetching, inventoryPage, checkinForm, sold, clock,
                   bookedRooms, paymentsPage>>

\* a column header of the list is clicked
HandleSort(column) ==
    /\ paymentList.view = "list"
    /\ ListPayments(paymentsPage.filteredPayments) # <<>>
    /\ paymentList' =
          IF paymentList.sortBy = column
          THEN [paymentList EXCEPT
                   !.sortDirection = IF paymentList.sortDirection = "asc" THEN "desc" ELSE "asc"]
          ELSE [paymentList EXCEPT !.sortBy = column, !.sortDirection = "desc"]
    /\ UNCHANGED <<db, shop, call, timer, fetching, inventoryPage, checkinForm, sold, clock,
                   bookedRooms, paymentsPage>>

\* a button of the pagination bar, shown when there is more than one page
GoToPage(page) ==
    LET totalPages == TotalPages(ListPayments(paymentsPage.filteredPayments)) IN
    /\ paymentList.view = "list"
    /\ totalPages > 1
    /\ page # paymentList.currentPage
    /\ page >= 1 /\ page <= totalPages
    /\ paymentList' = [paymentList EXCEPT !.currentPage = page]
    /\ UNCHANGED <<db, shop, call, timer, fetching, inventoryPage, checkinForm, sold, clock,
                   bookedRooms, paymentsPage>>

-----------------------------------------------------------------------------
(* The specifications *)

\* The store the pages start from: two stocked items and one open stay with
\* its initial payment, as AddInventory and CheckIn leave them
InitialInventory ==
    [i \in Items |->
        CASE i = "i1" -> [state |-> "live", quantity |-> MaxStock, unitPrice |-> 1]
          [] i = "i2" -> [state |-> "live", quantity |-> 1, unitPrice |-> MaxPrice]
          [] OTHER -> NoItem]

InitialCheckins ==
    [c \in Stays |->
        IF c = "c1"
        THEN [exists |-> TRUE, isCheckedOut |-> FALSE, rent |-> 2, initialPayment |-> 1,
              checkedInAt |-> 0]
        ELSE NoCheckin]

InitialPayments_ ==
    [c \in Stays |->
        IF c = "c1"
        THEN << [amount |-> 1, mode |-> "cash", type |-> "initial", items |-> 0,
                 timestamp |-> 0] >>
        ELSE <<>>]

Init ==
    /\ db = [inventory |-> InitialInventory,
             purchases |-> <<>>,
             checkins |-> InitialCheckins,
             payments |-> InitialPayments_]
    /\ shop = [s \in Sessions |-> NewShop]
    /\ call = [k \in Callers |-> IdleCall]
    /\ timer = [s \in Sessions |-> FALSE]
    /\ fetching = [s \in Sessions |-> TRUE]
    /\ inventoryPage = [i \in Items |-> NoRow]
    /\ checkinForm = NoForm
    /\ sold = [i \in Items |-> 0]
    /\ clock = 0
    /\ bookedRooms = NewBookedRooms
    /\ paymentsPage = NewPaymentsPage
    /\ paymentList = NewPaymentList

ShopStep(s) ==
    \/ FetchInventoryAndRooms(s)
    \/ \E r \in Stays \cup {NoRoom} : SetSelectedRoom(s, r)
    \/ \E i \in Items : AddToCart(s, i)
    \/ \E i \in Items : RemoveFromCart(s, i)
    \/ \E i \in Items : RemoveItemCompletely(s, i)
    \/ OpenCheckoutModal(s)
    \/ CloseCheckoutModal(s)
    \/ HandleCheckout(s)
    \/ CheckoutResolved(s)
    \/ CheckoutRejected(s)
    \/ SuccessTimeout(s)

\* Shop sessions purchasing concurrently from the same stock
Next ==
    \/ \E s \in Sessions : ShopStep(s)
    \/ \E s \in Sessions : Commit(s)

Spec == Init /\ [][Next]_vars

\* One Shop session while unit prices are edited
NextPrice ==
    \/ ShopStep("s1")
    \/ Commit("s1")
    \/ \E i \in Items, p \in Prices : EditItemPrice(i, p)

SpecPrice == Init /\ [][NextPrice]_vars

\* One Shop session while new items are added to the inventory
NextCreate ==
    \/ ShopStep("s1")
    \/ Commit("s1")
    \/ \E i \in Items, q \in Quantities, p \in Prices : AddInventoryOnSubmit(i, q, p)

SpecCreate == Init /\ [][NextCreate]_vars

\* One Shop session beside the Inventory page
NextStock ==
    \/ ShopStep("s1")
    \/ Commit("s1")
    \/ FetchInventory
    \/ \E i \in Items, n \in 1..MaxStock : HandleUpdateQuantity(i, "add", n)
    \/ \E i \in Items, n \in 1..MaxStock : HandleUpdateQuantity(i, "remove", n)
    \/ \E i \in Items : HandleDeleteItem(i)

SpecStock == Init /\ [][NextStock]_vars

\* One Shop session beside check-in and check-out
NextStay ==
    \/ ShopStep("s1")
    \/ Commit("s1")
    \/ \E c \in Stays, rent \in Rents, initialPayment \in InitialPayments,
          paymentMode \in {"cash", "gpay"} :
            CheckInAddCheckin(c, rent, initialPayment, paymentMode)
    \/ \E ok \in BOOLEAN : CheckInAddPayment(ok)
    \/ \E c \in Stays : CheckOut(c)

SpecStay == Init /\ [][NextStay]_vars

\* The carts another caller of the exported service passes
DirectCarts ==
    { <<>>,
      << [inventoryId |-> "i1", quantity |-> 1, unitPrice |-> 1] >>,
      << [inventoryId |-> "i2", quantity |-> 1, unitPrice |-> MaxPrice],
         [inventoryId |-> "i1", quantity |-> 1, unitPrice |-> 1] >> }

\* ShopPurchaseService.processPurchase called by a caller other than Shop
DirectCall(checkinId, cartItems) ==
    /\ call[ApiCaller].status = "idle"
    /\ Len(db.purchases) < MaxPurchases
    /\ call' = [call EXCEPT ![ApiCaller] = ProcessPurchase(checkinId, cartItems)]
    /\ UNCHANGED <<db, shop, timer, fetching, inventoryPage, checkinForm, sold, clock,
                 bookedRooms, paymentsPage, paymentList>>

\* the caller's await returns or throws
DirectReturn ==
    /\ call[ApiCaller].status \in {"resolved", "rejected"}
    /\ call' = [call EXCEPT ![ApiCaller] = IdleCall]
    /\ UNCHANGED <<db, shop, timer, fetching, inventoryPage, checkinForm, sold, clock,
                 bookedRooms, paymentsPage, paymentList>>

\* One Shop session beside another caller of the service
NextService ==
    \/ ShopStep("s1")
    \/ Commit("s1")
    \/ \E checkinId \in Stays \cup {""}, cartItems \in DirectCarts :
          DirectCall(checkinId, cartItems)
    \/ Commit(ApiCaller)
    \/ DirectReturn

SpecService == Init /\ [][NextService]_vars

\* the entries of stay c, counting the one of a purchase that is queued
EntriesDue(c) ==
    Len(db.payments[c])
    + (IF call[ApiCaller].status = "commit" /\ call[ApiCaller].checkinId = c THEN 1 ELSE 0)

\* A caller of the service beside extensions, fees, check-out and the Room
\* History page, on the stays of the store
NextLedger ==
    \/ \E checkinId \in Stays, cartItems \in DirectCarts :
          /\ Len(db.payments[checkinId]) < MaxEntries
          /\ DirectCall(checkinId, cartItems)
    \/ Commit(ApiCaller)
    \/ DirectReturn
    \/ \E c \in Stays, amount \in ChargeAmounts : RecordExtension(c, amount)
    \/ \E c \in Stays, amount \in ChargeAmounts : RecordFee(c, amount)
    \/ \E c \in Stays : CheckOut(c)
    \/ FetchCustomers
    \/ \E c \in Stays : FetchPaymentHistory(c)
    \/ \E amount \in PaymentAmounts : HandleAddPayment(amount)

SpecLedger == Init /\ [][NextLedger]_vars

\* The Room History page while time passes: purchases, extensions and fees of
\* the open stay, its check-out and added payments
NextHistory ==
    \/ Tick
    \/ \E cartItems \in DirectCarts :
          EntriesDue("c1") < MaxEntries /\ DirectCall("c1", cartItems)
    \/ Commit(ApiCaller)
    \/ DirectReturn
    \/ \E amount \in ChargeAmounts :
          EntriesDue("c1") < MaxEntries /\ RecordExtension("c1", amount)
    \/ \E amount \in ChargeAmounts :
          EntriesDue("c1") < MaxEntries /\ RecordFee("c1", amount)
    \/ CheckOut("c1")
    \/ FetchCustomers
    \/ FetchPaymentHistory("c1")
    \/ \E amount \in PaymentAmounts :
          EntriesDue("c1") < MaxEntries /\ HandleAddPayment(amount)

SpecHistory == Init /\ [][NextHistory]_vars

\* The Room History page beside check-in and check-out while time passes
NextLegacy ==
    \/ Tick
    \/ \E c \in Stays, rent \in Rents, initialPayment \in InitialPayments :
          CheckInAddCheckin(c, rent, initialPayment, "gpay")
    \/ \E ok \in BOOLEAN : CheckInAddPayment(ok)
    \/ \E c \in Stays : CheckOut(c)
    \/ FetchCustomers
    \/ \E c \in Stays : FetchPaymentHistory(c)
    \/ \E amount \in ChargeAmounts : HandleAddPayment(amount)

SpecLegacy == Init /\ [][NextLegacy]_vars

\* The writers of the ledger: check-in, a caller of the service on the open
\* stay, and payments added on the Room History page, while time passes
NextAppend ==
    \/ Tick
    \/ /\ EntriesDue("c1") < MaxEntries
       /\ DirectCall("c1", << [inventoryId |-> "i1", quantity |-> 1, unitPrice |-> 1] >>)
    \/ Commit(ApiCaller)
    \/ DirectReturn
    \/ \E c \in Stays, rent \in Rents, initialPayment \in InitialPayments :
          CheckInAddCheckin(c, rent, initialPayment, "gpay")
    \/ \E ok \in BOOLEAN : CheckInAddPayment(ok)
    \/ CheckOut("c1")
    \/ FetchCustomers
    \/ FetchPaymentHistory("c1")
    \/ \E amount \in ChargeAmounts : HandleAddPayment(amount)

SpecAppend == Init /\ [][NextAppend]_vars

\* The Payment Logs page beside purchases, extensions and fees of the open
\* stay and the check-in of a further one
NextReport ==
    \/ \E cartItems \in DirectCarts :
          /\ Len(db.payments["c1"]) < MaxEntries
          /\ DirectCall("c1", cartItems)
    \/ Commit(ApiCaller)
    \/ DirectReturn
    \/ \E c \in Stays, rent \in Rents, initialPayment \in InitialPayments :
          CheckInAddCheckin(c, rent, initialPayment, "gpay")
    \/ \E ok \in BOOLEAN : CheckInAddPayment(ok)
    \/ \E amount \in ChargeAmounts : RecordExtension("c1", amount)
    \/ \E amount \in ChargeAmounts : RecordFee("c1", amount)
    \/ FetchAllPayments
    \/ \E date \in 0..MaxClock : SetSelectedDate(date)
    \/ \E filterType \in {"all", "advance", "extension"} : SetFilterType(filterType)

SpecReport == Init /\ [][NextReport]_vars

-----------------------------------------------------------------------------
(* What a committed or failed call did, read off one step *)

\* One Shop session alone with the store
NextSession ==
    \/ ShopStep("s1")
    \/ Commit("s1")

SpecSession == Init /\ [][NextSession]_vars

\* The same session under the scheduling the code relies on: the store answers
\* a commit, the awaiting handler is resumed, the timer fires and a fetch that
\* was started returns.  Nothing obliges the user to click.
SessionFairness ==
    /\ WF_vars(Commit("s1"))
    /\ WF_vars(CheckoutResolved("s1"))
    /\ WF_vars(CheckoutRejected("s1"))
    /\ WF_vars(SuccessTimeout("s1"))
    /\ WF_vars(FetchInventoryAndRooms("s1"))

SpecSessionLive == Init /\ [][NextSession]_vars /\ SessionFairness

\* A day with more payments than one page of the list holds, the initial
\* payment of stay c1 and the payments added to it, and a payment and an
\* extension on the day after
LongLedger ==
    [k \in 1..ListEntries |->
        [amount |-> IF k % 2 = 1 THEN 1 ELSE 2, mode |-> "cash",
         type |-> IF k = 1 THEN "initial" ELSE "advance", items |-> 0, timestamp |-> 0]]
    \o << [amount |-> 2, mode |-> "gpay", type |-> "advance", items |-> 0,
            timestamp |-> MaxClock],
          [amount |-> 1, mode |-> "n/a", type |-> "extension", items |-> 0,
            timestamp |-> MaxClock] >>

InitList ==
    /\ db = [inventory |-> InitialInventory,
             purchases |-> <<>>,
             checkins |-> InitialCheckins,
             payments |-> [InitialPayments_ EXCEPT !["c1"] = LongLedger]]
    /\ shop = [s \in Sessions |-> NewShop]
    /\ call = [k \in Callers |-> IdleCall]
    /\ timer = [s \in Sessions |-> FALSE]
    /\ fetching = [s \in Sessions |-> TRUE]
    /\ inventoryPage = [i \in Items |-> NoRow]
    /\ checkinForm = NoForm
    /\ sold = [i \in Items |-> 0]
    /\ clock = 0
    /\ bookedRooms = NewBookedRooms
    /\ paymentsPage = NewPaymentsPage
    /\ paymentList = NewPaymentList

\* The Payment Logs page with its list view
NextList ==
    \/ FetchAllPayments
    \/ \E filterType \in {"all", "advance", "extension"} : SetFilterType(filterType)
    \/ \E date \in 0..MaxClock : paymentList.view = "calendar" /\ SetSelectedDate(date)
    \/ \E view \in {"calendar", "list"} : SetView(view)
    \/ \E column \in {"timestamp", "customerName", "roomNumber", "amount", "type"} :
          HandleSort(column)
    \/ \E page \in 0..(ListEntries \div pageSize + 2) : GoToPage(page)

SpecList == InitList /\ [][NextList]_vars

\* caller k's commit is answered in this step
Answered(k) == call[k].status = "commit" /\ call'[k].status # "commit"
Succeeded(k) == call[k].status = "commit" /\ call'[k].status = "resolved"
Failed(k) == call[k].status # "rejected" /\ call'[k].status = "rejected"

\* the quantity the cart asks of item i
Requested(cartItems, i) ==
    SumSeq([k \in 1..Len(cartItems) |->
              IF cartItems[k].inventoryId = i THEN cartItems[k].quantity ELSE 0])

PurchasesOf(d, c) == SelectSeq(d.purchases, LAMBDA p : p.checkinId = c)
ShopEntries(d, c) == SelectSeq(d.payments[c], LAMBDA e : e.type = "shop-purchase")

-----------------------------------------------------------------------------
(* Claims *)

\* C1: no oversell: the units decremented by the purchases that succeeded never
\* exceed the stock the item started with (Spec has no restocking).
NoOversell == \A i \in Items : sold[i] <= InitialInventory[i].quantity

\* C2: a processPurchase that fails leaves inventory, purchase records, ledger
\* entries and stay documents exactly as they were, for carts of any length.
AtomicAllOrNothing == [][\A k \in Callers : Failed(k) => db' = db]_vars

\* C2 witness: a two-line call was rejected because its second item is gone
\* while its first item is still there to be decremented.
AtomicAllOrNothingWitness ==
    \E k \in Callers :
        /\ call[k].status = "rejected"
        /\ call[k].error = "not-found"
        /\ Len(call[k].cartItems) = 2
        /\ ItemLive(db, call[k].cartItems[1].inventoryId)
        /\ ~ItemLive(db, call[k].cartItems[2].inventoryId)

\* C3: a commit that finds less stock than a cart line requests fails and
\* changes nothing in the store.
InsufficientStockAborts ==
    [][\A k \in Callers :
          (/\ Answered(k)
           /\ \E i \in Items :
                /\ Requested(call[k].cartItems, i) > 0
                /\ db.inventory[i].quantity < Requested(call[k].cartItems, i))
          => (call'[k].status = "rejected" /\ db' = db)]_vars

\* C4: the stored quantity of every inventory item is never negative.
QuantityNonNegative == \A i \in Items : ItemLive(db, i) => db.inventory[i].quantity >= 0

\* C5: conservation: for every stay the amounts of its purchase records sum to
\* the absolute amounts of its shop-purchase ledger entries.
Conservation ==
    \A c \in Stays :
        SumSeq([k \in 1..Len(PurchasesOf(db, c)) |-> PurchasesOf(db, c)[k].amount])
        = SumSeq([k \in 1..Len(ShopEntries(db, c)) |-> Abs(ShopEntries(db, c)[k].amount)])

\* C5 witness: two purchases are committed for one stay, one of them with a
\* line of more than one unit.
ConservationWitness ==
    \E c \in Stays :
        /\ Len(ShopEntries(db, c)) = 2
        /\ \E k \in 1..Len(PurchasesOf(db, c)) : PurchasesOf(db, c)[k].quantity > 1

\* C6: in every state a reader can see, the inventory decrements, the purchase
\* records and the shop-purchase ledger entries of the purchases are all there
\* or all absent: every item is short of its starting stock by exactly the
\* units its purchase records hold, and the ledger entries of a stay announce
\* exactly as many lines as the stay has purchase records.
PairedWrites ==
    /\ \A i \in Items :
          ItemLive(db, i) =>
             InitialInventory[i].quantity - db.inventory[i].quantity
             = SumSeq([k \in 1..Len(db.purchases) |->
                         IF db.purchases[k].inventoryId = i
                         THEN db.purchases[k].quantity ELSE 0])
    /\ \A c \in Stays :
          SumSeq([k \in 1..Len(ShopEntries(db, c)) |-> ShopEntries(db, c)[k].items])
          = Len(PurchasesOf(db, c))

\* C6 witness: one purchase is committed, another was refused by the store,
\* and a third party reads the store while the refused caller has not yet
\* handled the error.
PairedWritesWitness ==
    /\ Len(db.purchases) > 0
    /\ \E s \in Sessions : call[s].status = "rejected" /\ call[s].error = "unavailable"

\* C7: a call with no cart line or no stay identifier is rejected before any
\* write is queued and leaves the store as it was, so every call that reaches
\* the store has both; and the Shop never makes a call without a selected room
\* and a cart line.
EmptyCartRejected ==
    /\ \A k \in Callers :
          (call[k].checkinId = "" \/ call[k].cartItems = <<>>)
             => call[k].status \in {"idle", "rejected"} /\ call[k].batch = <<>>
    /\ \A k \in Callers :
          call[k].error = "invalid"
             => (call[k].checkinId = "" \/ call[k].cartItems = <<>>)
    /\ \A s \in Sessions :
          call[s].status # "idle"
             => (call[s].checkinId # "" /\ call[s].cartItems # <<>>)

\* C7 witness: a call with a stay identifier and an empty cart was rejected as
\* invalid while purchases of other calls are in the store.
EmptyCartRejectedWitness ==
    /\ call[ApiCaller].status = "rejected"
    /\ call[ApiCaller].error = "invalid"
    /\ call[ApiCaller].checkinId # ""
    /\ call[ApiCaller].cartItems = <<>>
    /\ Len(db.purchases) > 0

\* C8: a purchase whose stay does not exist or is checked out when the commit
\* is answered fails and changes nothing in the store.
ClosedStayAborts ==
    [][\A k \in Callers :
          (/\ Answered(k)
           /\ \/ ~CheckinExists(db, call[k].checkinId)
              \/ db.checkins[call[k].checkinId].isCheckedOut)
          => (call'[k].status = "rejected" /\ db' = db)]_vars

\* C9: every purchase record a commit creates is billed at the unit price the
\* item has in the store when the commit is answered.
PriceFreshness ==
    [][\A k \in Callers :
          Succeeded(k) =>
             \A j \in (Len(db.purchases) + 1)..Len(db'.purchases) :
                db'.purchases[j].amount
                = db'.purchases[j].quantity
                  * db.inventory[db'.purchases[j].inventoryId].unitPrice]_vars

\* the purchase records and the ledger entry the claim C10 names, for a call
ExpectedPurchases(checkinId, cartItems) ==
    [j \in 1..Len(cartItems) |->
        [checkinId |-> checkinId, inventoryId |-> cartItems[j].inventoryId,
         quantity |-> cartItems[j].quantity,
         amount |-> cartItems[j].quantity * cartItems[j].unitPrice,
         paymentStatus |-> "pending"]]

ExpectedEntry(cartItems) ==
    [amount |-> -SumSeq([j \in 1..Len(cartItems) |->
                            cartItems[j].quantity * cartItems[j].unitPrice]),
     mode |-> "shop", type |-> "shop-purchase", items |-> Len(cartItems)]

\* the entry without its timestamp
Undated(e) == [amount |-> e.amount, mode |-> e.mode, type |-> e.type, items |-> e.items]

\* C10: a successful call on a cart of n lines takes from every line's item
\* exactly the line's quantity, adds exactly n purchase records (pending,
\* amount = quantity * unit price of the line) and appends exactly one ledger
\* entry to the target stay, of amount -(sum of the line amounts), type
\* shop-purchase and mode shop (the mode that is neither cash nor gpay).
PurchaseEffect ==
    [][\A k \in Callers :
          Succeeded(k) =>
            LET c == call[k].checkinId
                cart == call[k].cartItems
            IN /\ \A i \in Items :
                    db'.inventory[i].quantity
                    = db.inventory[i].quantity - Requested(cart, i)
               /\ db'.purchases = db.purchases \o ExpectedPurchases(c, cart)
               /\ Len(db'.payments[c]) = Len(db.payments[c]) + 1
               /\ SubSeq(db'.payments[c], 1, Len(db.payments[c])) = db.payments[c]
               /\ Undated(db'.payments[c][Len(db'.payments[c])]) = ExpectedEntry(cart)
               /\ \A e \in Stays \ {c} : db'.payments[e] = db.payments[e]]_vars

\* C10 witness: a call with two lines, one of two units, has succeeded.
PurchaseEffectWitness ==
    \E k \in Callers :
        /\ call[k].status = "resolved"
        /\ Len(call[k].cartItems) = 2
        /\ \E j \in 1..2 : call[k].cartItems[j].quantity = 2

-----------------------------------------------------------------------------
(* Claims on the ledger of a stay *)

\* what the stay owes before the figure is clamped
Balance(d, c) ==
    PendingOf(d, c).totalRentSoFar + PendingOf(d, c).shopPurchasesTotal
    - PendingOf(d, c).totalPaid

LinesTotal(history, kinds) ==
    SumSeq([k \in 1..Len(history) |->
              IF history[k].type \in kinds THEN history[k].amount ELSE 0])

\* C12: no double counting: in the history displayed for a stay of running
\* rent R with extensions summing to E and extra fees summing to F, the
\* base-rent line is R - E - F and the rent, extension and fee lines sum to R.
NoDoubleCounting ==
    bookedRooms.selectedCustomer.id # "" =>
        LET history == bookedRooms.paymentHistory
            R == bookedRooms.selectedCustomer.rent
            E == LinesTotal(history, {"extension"})
            F == LinesTotal(history, {"extra-fee"})
        IN /\ LinesTotal(history, {"Rent (Check-in)"}) = R - E - F
           /\ LinesTotal(history, {"Rent (Check-in)", "extension", "extra-fee"}) = R

PaidTotal(records) ==
    SumSeq([k \in 1..Len(records) |->
              IF /\ records[k].mode \in {"cash", "gpay"}
                 /\ records[k].type \in {"initial", "advance", "additional"}
              THEN records[k].amount ELSE 0])

\* the sum of the amounts of the records of kind shop-purchase, extension or
\* extra-fee
ChargesTotal(records) ==
    SumSeq([k \in 1..Len(records) |->
              IF records[k].type \in {"shop-purchase", "extension", "extra-fee"}
              THEN records[k].amount ELSE 0])

CustomerOf(d, c) ==
    [present |-> TRUE, rent |-> d.checkins[c].rent,
     checkedInAt |-> d.checkins[c].checkedInAt]

\* the figures derived from the history fetched in the given order: the
\* totals of the table's columns and the calculator's figures on the entries
\* of the history
StayFigures(customer, entries, purchases) ==
    LET history == [k \in 1..Len(entries) |-> HistoryEntry(entries[k], "doc")]
        full == FullHistory(customer, history)
        computed == ComputePending(customer.rent, Tail(full), purchases)
    IN [rentColumn |-> SumSeq([k \in 1..Len(full) |-> RentColumn(full[k])]),
        cashColumn |-> SumSeq([k \in 1..Len(full) |-> CashColumn(full[k])]),
        gpayColumn |-> SumSeq([k \in 1..Len(full) |-> GpayColumn(full[k])]),
        baseRent |-> computed.baseRent,
        extensionsTotal |-> computed.extensionsTotal,
        feesTotal |-> computed.feesTotal,
        totalPaid |-> computed.totalPaid,
        pendingAmount |-> computed.pendingAmount]

\* the entries committed in the opposite order
Reversed(ledger) == [k \in 1..Len(ledger) |-> ledger[Len(ledger) + 1 - k]]

\* the histories a fetch can return when the entries of the ledger were
\* committed in the stored order or in the opposite one
FetchedOrders(ledger) ==
    OrderByTimestamp(ledger) \cup OrderByTimestamp(Reversed(ledger))

\* the figures a fetch of the stay can give
FiguresOf(d, c) ==
    {StayFigures(CustomerOf(d, c), entries, PurchasesOf(d, c)) :
        entries \in FetchedOrders(d.payments[c])}

\* C15: the figures do not depend on the order in which the entries of a stay
\* were committed: committed in the stored order or in the opposite one, and
\* whatever the order the store gives entries of equal timestamp, a fetch
\* gives the same base rent, totals paid and pending amount.
CommitOrderInvariant ==
    \A c \in Stays :
        db.checkins[c].exists => Cardinality(FiguresOf(db, c)) = 1

\* C15 witness: the entries of a stay were committed in an order that is not
\* the order of their timestamps: a purchase queued before an extension was
\* committed after it.
CommitOrderInvariantWitness ==
    \E c \in Stays :
        /\ Len(db.payments[c]) >= 3
        /\ \E k \in 1..(Len(db.payments[c]) - 1) :
              /\ db.payments[c][k].timestamp > db.payments[c][k + 1].timestamp
              /\ db.payments[c][k].type = "extension"
              /\ db.payments[c][k + 1].type = "shop-purchase"

\* the figures of the Room History page: the totals of the table's columns,
\* the shop total and the calculator's figures on the displayed history
PageFigures(b) ==
    LET full == b.paymentHistory
        computed == ComputePending(b.selectedCustomer.rent, Tail(full), b.shopPurchases)
    IN [rentColumn |-> SumSeq([k \in 1..Len(full) |-> RentColumn(full[k])]),
        cashColumn |-> SumSeq([k \in 1..Len(full) |-> CashColumn(full[k])]),
        gpayColumn |-> SumSeq([k \in 1..Len(full) |-> GpayColumn(full[k])]),
        shopTotal |-> GetTotalShopPurchases(b.shopPurchases),
        baseRent |-> computed.baseRent,
        extensionsTotal |-> computed.extensionsTotal,
        feesTotal |-> computed.feesTotal,
        totalPaid |-> computed.totalPaid,
        pendingAmount |-> computed.pendingAmount]

\* the page shows stay c as a fetch of the store d returns it: nothing was
\* written to the stay record, its ledger or its purchases since
ShowsFetchOf(b, d, c) ==
    /\ b.customers[c] = CustomerOf(d, c)
    /\ b.selectedCustomer = [id |-> c, rent |-> d.checkins[c].rent,
                             checkedInAt |-> d.checkins[c].checkedInAt]
    /\ b.shopPurchases = PurchasesOf(d, c)
    /\ \E entries \in OrderByTimestamp(d.payments[c]) :
          b.paymentHistory
          = FullHistory(CustomerOf(d, c),
                        [k \in 1..Len(entries) |-> HistoryEntry(entries[k], "doc")])

InitialLines(history) == {k \in 1..Len(history) : history[k].type = "initial"}

\* C17: legacy fallback: every history the page builds holds exactly one
\* entry of type initial: the ledger's when the ledger holds one, and none is
\* synthesized; otherwise a synthesized one of amount the stay's rent, mode
\* cash and the timestamp of the check-in.
LegacyFallback ==
    [][\A c \in Stays :
          (bookedRooms'.selectedCustomer.id = c /\ bookedRooms' # bookedRooms)
          => LET full == bookedRooms'.paymentHistory
                 stored == InitialLines(db'.payments[c])
             IN /\ Cardinality(InitialLines(full)) = 1
                /\ \A k \in InitialLines(full) :
                      IF stored = {}
                      THEN full[k] = [id |-> "advance-entry",
                                      amount |-> db'.checkins[c].rent,
                                      mode |-> "cash", type |-> "initial",
                                      timestamp |-> db'.checkins[c].checkedInAt]
                      ELSE /\ full[k].id = "doc"
                           /\ \E j \in stored :
                                 full[k] = HistoryEntry(db'.payments[c][j], "doc")]_vars

\* C17 witness: the page shows the history of a stay checked in at time 1
\* whose ledger holds an added payment and no initial payment, with the
\* synthesized initial payment of the stay's rent.
LegacyFallbackWitness ==
    \E c \in Stays :
        /\ bookedRooms.selectedCustomer.id = c
        /\ InitialLines(db.payments[c]) = {}
        /\ Len(db.payments[c]) = 1
        /\ db.checkins[c].checkedInAt = 1
        /\ Len(bookedRooms.paymentHistory) = 3
        /\ bookedRooms.paymentHistory[2].id = "advance-entry"
        /\ bookedRooms.paymentHistory[2].amount = db.checkins[c].rent
        /\ bookedRooms.paymentHistory[2].timestamp = 1
        /\ bookedRooms.paymentHistory[3].type = "advance"

\* the entry this step appended to the ledger of stay c, if it appended one
Appended(c) ==
    IF Len(db'.payments[c]) = Len(db.payments[c]) + 1
    THEN db'.payments[c][Len(db'.payments[c])]
    ELSE NoPayment

\* C18: while a stay is open its rent never decreases, and it changes only
\* with an extension or a fee, by the amount of the entry appended; a step
\* that appends a shop-purchase entry or an added payment, and every answer to
\* a processPurchase call, leaves the rent of the stay as it was.
RentChangedByChargesOnly ==
    [][\A c \in Stays :
          db.checkins[c].exists =>
            /\ ~db.checkins[c].isCheckedOut =>
                 /\ db'.checkins[c].rent >= db.checkins[c].rent
                 /\ db'.checkins[c].rent # db.checkins[c].rent =>
                      /\ Appended(c).type \in {"extension", "extra-fee"}
                      /\ Appended(c).amount
                         = db'.checkins[c].rent - db.checkins[c].rent
            /\ Appended(c).type \in {"shop-purchase", "advance"} =>
                 db'.checkins[c].rent = db.checkins[c].rent
            /\ (\E k \in Callers : Answered(k)) =>
                 db'.checkins[c].rent = db.checkins[c].rent]_vars

\* C18 witness: an open stay was extended and charged a fee, a purchase on
\* it succeeded, and its rent is the rent of the check-in plus the two charges.
RentChangedByChargesOnlyWitness ==
    \E c \in Stays :
        /\ db.checkins[c].exists
        /\ ~db.checkins[c].isCheckedOut
        /\ \E k \in 1..Len(db.payments[c]) : db.payments[c][k].type = "extension"
        /\ \E k \in 1..Len(db.payments[c]) : db.payments[c][k].type = "extra-fee"
        /\ \E k \in 1..Len(db.payments[c]) : db.payments[c][k].type = "shop-purchase"
        /\ db.checkins[c].rent
           = 2 + SumOf(db.payments[c], {"extension", "extra-fee"}, AllModes)
        /\ db.checkins[c].initialPayment < 0

\* C19: the ledger of a stay is append-only: no step changes the amount, mode,
\* kind or timestamp of an entry that exists or removes it; check-in, purchase
\* and added payment only put entries behind those that exist.
LedgerAppendOnly ==
    [][\A c \in Stays :
          /\ Len(db'.payments[c]) >= Len(db.payments[c])
          /\ SubSeq(db'.payments[c], 1, Len(db.payments[c])) = db.payments[c]]_vars

\* C19 witness: the ledger of one stay holds its check-in payment, a shop
\* purchase and an added payment, and a further stay holds its check-in payment.
LedgerAppendOnlyWitness ==
    \E c, e \in Stays :
        /\ c # e
        /\ Len(db.payments[c]) = 3
        /\ db.payments[c][1].type = "initial"
        /\ \E k \in 2..3 : db.payments[c][k].type = "shop-purchase"
        /\ \E k \in 2..3 : db.payments[c][k].type = "advance"
        /\ Len(db.payments[e]) = 1
        /\ db.payments[e][1].type = "initial"
        /\ db.payments[e][1].timestamp = 1

-----------------------------------------------------------------------------
(* Claims on the stock beside the Inventory page *)

\* C20: no lost update on stock: an add or a remove of the Inventory page
\* changes the quantity the store holds at that moment, so that purchases
\* committed since the page loaded its rows stay counted: the stored
\* quantity becomes the stored quantity plus n, or less n and not below 0.
NoLostUpdate ==
    [][\A i \in Items, operation \in {"add", "remove"}, n \in 1..MaxStock :
          (ItemLive(db, i) /\ db' # db /\ HandleUpdateQuantity(i, operation, n))
          => db'.inventory[i].quantity
             = NewQuantity(db.inventory[i].quantity, operation, n)]_vars

\* C21: a failed commit is never reported as success.  processPurchase
\* resolves only in a step that applied its batch and rejects only in a step
\* that left the store as it was; the Shop enters the success state only from
\* a resolved call and the checkout clears the cart only in the success state;
\* after a rejected call the catch runs instead: success stays off, the
\* processing flag is dropped and the cart is kept.
FailureNeverSuccess ==
    [][\A s \in Sessions :
         /\ Succeeded(s) => Len(db'.purchases) = Len(db.purchases) + Len(shop[s].cartItems)
                            /\ shop[s].cartItems # <<>>
         /\ (call[s].status = "commit" /\ call'[s].status = "rejected") => db' = db
         /\ (~shop[s].purchaseSuccess /\ shop'[s].purchaseSuccess)
               => call[s].status = "resolved"
         /\ (shop[s].checkoutModal /\ shop[s].cartItems # <<>> /\ shop'[s].cartItems = <<>>)
               => shop[s].purchaseSuccess
         /\ (call[s].status = "rejected" /\ call'[s].status # "rejected") =>
               /\ ~shop'[s].purchaseSuccess
               /\ ~timer'[s]
               /\ ~shop'[s].processingCheckout
               /\ shop'[s].cartItems = shop[s].cartItems]_vars
\* the store refused the commit: processPurchase has thrown, nothing was
\* written and the Shop is not in the success state
FailureNeverSuccessWitness ==
    /\ call["s1"].status = "rejected" /\ call["s1"].error = "unavailable"
    /\ ~shop["s1"].purchaseSuccess /\ ~timer["s1"]
    /\ shop["s1"].cartItems # <<>>
    /\ db.purchases = <<>>

\* C22: no entry is appended to the ledger of a stay that does not exist or
\* has been checked out: a step that starts with such a stay leaves its ledger
\* as it was, whether the writer is the add-payment operation or a purchase.
ClosedLedgerFrozen ==
    [][\A c \in Stays :
          (~CheckinExists(db, c) \/ db.checkins[c].isCheckedOut)
          => db'.payments[c] = db.payments[c]]_vars

\* C23: for every stay and every state of its ledger, the pending figure of
\* the booking modal (total rent so far less total paid so far) is the pending
\* figure recalculated for the house card.
PendingSameEverywhere ==
    \A c \in Stays :
       CheckinExists(db, c) =>
          ModalPending(db.checkins[c].rent, db.payments[c])
            = CalculatePendingAmount(db.checkins[c].rent, db.payments[c])

\* C24: once processPurchase has answered the checkout, whether it committed
\* or failed, the cart of the session eventually becomes empty.
CartDiscarded ==
    (call["s1"].status \in {"resolved", "rejected"}) ~> (shop["s1"].cartItems = <<>>)

\* C25: the cart of a Shop session holds at most one line per item, every
\* line's quantity is at least 1 and at most the quantity of its item in the
\* inventory the session loaded last, and a line is added or raised only
\* while a room is selected.
CartWellFormed(cartItems, inventoryItems) ==
    /\ \A j, k \in 1..Len(cartItems) :
          cartItems[j].inventoryId = cartItems[k].inventoryId => j = k
    /\ \A k \in 1..Len(cartItems) :
          /\ 1 <= cartItems[k].quantity
          /\ inventoryItems[cartItems[k].inventoryId].present
          /\ cartItems[k].quantity <= inventoryItems[cartItems[k].inventoryId].quantity
CartInvariant ==
    [][\A s \in Sessions :
          /\ CartWellFormed(shop'[s].cartItems, shop'[s].inventoryItems)
          /\ (\E i \in Items :
                 Requested(shop'[s].cartItems, i) > Requested(shop[s].cartItems, i))
             => shop[s].selectedRoom # NoRoom]_vars

\* C26: checkout is repeatable within a session: after a purchase of the
\* session has committed, its processing flag eventually is false again, so
\* that Confirm Purchase can be pressed for a new cart.
CheckoutRepeatable ==
    (call["s1"].status = "resolved") ~> (~shop["s1"].processingCheckout)

CheckInAtomic ==
    \A c \in Stays :
       CheckinExists(db, c) =>
          /\ Cardinality(InitialLines(db.payments[c])) = 1
          /\ \A k \in InitialLines(db.payments[c]) :
                /\ db.payments[c][k].amount = db.checkins[c].initialPayment
                /\ checkinForm.id = c => db.payments[c][k].mode = checkinForm.mode

\* C29: the initialPayment field of a stay is the sum of the amounts of its
\* ledger entries of kinds initial, advance and shop-purchase.
InitialPaymentIsLedgerSum ==
    \A c \in Stays :
       CheckinExists(db, c) =>
          db.checkins[c].initialPayment
            = SumOf(db.payments[c], {"initial", "advance", "shop-purchase"}, AllModes)

\* C30: the page of the payment list is between 1 and the number of pages of
\* the payments handed to the list (1 when there is none), and a list that is
\* not empty never shows an empty page.
PageInRange ==
    paymentList.view = "list" =>
       LET payments == ListPayments(paymentsPage.filteredPayments) IN
       /\ 1 <= paymentList.currentPage
       /\ paymentList.currentPage <= IF TotalPages(payments) > 1 THEN TotalPages(payments) ELSE 1
       /\ payments # <<>> => CurrentPagePayments(payments, paymentList) # <<>>

====
